---- MODULE Spec2Model ----
(***************************************************************************)
(* A model of the Google token strategy (src/src/strategy.ts): strategy    *)
(* construction, the per-request authenticate handler, the profile loader  *)
(* (_loadUserProfile) and the profile fetcher (userProfile), together with *)
(* the collaborators they call: the skip-profile predicate, the HTTP get   *)
(* of the OAuth2 client, the application verify callback and the           *)
(* framework outcome sinks fail / error / success.                         *)
(*                                                                         *)
(* JavaScript runs each callback to completion, so every action below is   *)
(* one such run: the authenticate call itself, or one continuation         *)
(* invoked by a collaborator.                                              *)
(***************************************************************************)
EXTENDS Integers, Sequences, FiniteSets, TLC

(* optionsGiven is the options object as the application passed it to the   *)
(* constructor, strategy the strategy constructed from it.                   *)
VARIABLES optionsGiven, strategy, att

vars == <<optionsGiven, strategy, att>>

(* Number of authentication attempts the model tracks side by side. *)
NumAttempts == 2

Attempts == 1..NumAttempts

-----------------------------------------------------------------------------
(* JavaScript values.  Every value is a record tagged by its type in t.     *)

Undefined == [t |-> "undefined"]
Null == [t |-> "null"]
False == [t |-> "boolean", b |-> FALSE]
True == [t |-> "boolean", b |-> TRUE]
Str(s) == [t |-> "string", s |-> s]
Fn(n) == [t |-> "function", length |-> n]
Err(kind, message) == [t |-> "error", kind |-> kind, message |-> message]

(* A number; the numbers of the model are the integers. *)
Num(n) == [t |-> "number", n |-> n]

(* An array of values. *)
Arr(e) == [t |-> "array", e |-> e]

(* ToBoolean: undefined, null, false, the empty string and 0 are falsy. *)
Truthy(v) == /\ v.t \notin {"undefined", "null"}
             /\ v # False
             /\ v # Str("")
             /\ v # Num(0)

(* The decimal text of an integer. *)
RECURSIVE IntToStr(_)
IntToStr(n) ==
    IF n < 0 THEN "-" \o IntToStr(0 - n)
    ELSE IF n < 10
    THEN <<"0", "1", "2", "3", "4", "5", "6", "7", "8", "9">>[n + 1]
    ELSE IntToStr(n \div 10) \o IntToStr(n % 10)

(* The result of evaluating an expression: a value, or a thrown exception. *)
Ok(v) == [ok |-> TRUE, v |-> v]
Throw(e) == [ok |-> FALSE, v |-> e]

(* Converting an object to a primitive throws when its own toString        *)
(* member is not a function and valueOf gives the object itself.            *)
NotPrimitive == Err("TypeError", "Cannot convert object to primitive value")

(* A plain object has an own member toString; held as parsed data, the      *)
(* member is never a function.                                              *)
OwnToString(v) == "f" \in DOMAIN v /\ "toString" \in DOMAIN v.f

(* ToString of a value concatenated to a string (line 140), for the values  *)
(* a request field can hold: undefined, null, booleans, numbers, strings,   *)
(* plain objects, and arrays (the elements joined by commas, null and       *)
(* undefined elements as the empty text).  The result is the text, or the   *)
(* exception the conversion throws.                                         *)
RECURSIVE ToStr(_)
RECURSIVE JoinStr(_, _)
JoinStr(e, i) ==
    IF i > Len(e) THEN Ok("")
    ELSE LET x == IF e[i].t \in {"undefined", "null"} THEN Ok("")
                  ELSE ToStr(e[i])
         IN  IF ~x.ok THEN x
             ELSE IF i = Len(e) THEN x
             ELSE LET rest == JoinStr(e, i + 1)
                  IN  IF ~rest.ok THEN rest
                      ELSE Ok(x.v \o "," \o rest.v)

ToStr(v) == CASE v.t = "string" -> Ok(v.s)
              [] v.t = "undefined" -> Ok("undefined")
              [] v.t = "null" -> Ok("null")
              [] v.t = "boolean" -> Ok(IF v.b THEN "true" ELSE "false")
              [] v.t = "number" -> Ok(IntToStr(v.n))
              [] v.t = "array" -> JoinStr(v.e, 1)
              [] v.t = "object" -> IF OwnToString(v) THEN Throw(NotPrimitive)
                                   ELSE Ok("[object Object]")

(* A key-value container of a request (query, body or headers). *)
Container(at, rt, er) ==
    [t |-> "object", access_token |-> at, refresh_token |-> rt, error |-> er]

(* Reading a property of undefined throws a TypeError. *)
TypeError == Err("TypeError", "Cannot read properties of undefined")

-----------------------------------------------------------------------------
(* Strategy construction (lines 51-64).                                     *)

DefaultAuthorizationURL == "https://accounts.google.com/o/oauth2/auth"
DefaultTokenURL == "https://accounts.google.com/o/oauth2/token"

(* a || b on values. *)
OrValue(a, b) == IF Truthy(a) THEN a ELSE b

(* The constructor with the two defaults exchanged. *)
GoogleTokenStrategy_swappedDefaults(options) ==
    [name |-> "google-token",
     authorizationURL |->
         OrValue(options.authorizationURL, Str(DefaultTokenURL)),
     tokenURL |-> OrValue(options.tokenURL, Str(DefaultAuthorizationURL)),
     _passReqToCallback |-> options.passReqToCallback,
     _skipUserProfile |-> options.skipUserProfile]

(* The constructor: defaults the two endpoint URLs, hands the options to     *)
(* the OAuth2 base (which keeps passReqToCallback and skipUserProfile), and  *)
(* sets the name.                                                            *)
GoogleTokenStrategy(options) ==
    [name |-> "google-token",
     authorizationURL |->
         OrValue(options.authorizationURL, Str(DefaultAuthorizationURL)),
     tokenURL |-> OrValue(options.tokenURL, Str(DefaultTokenURL)),
     _passReqToCallback |-> options.passReqToCallback,
     _skipUserProfile |-> options.skipUserProfile]

(* The skip-profile policies an application can configure: unset, a boolean, *)
(* or a function declaring 0, 1 or 2 parameters.                             *)
SkipPolicies == {Undefined, False, True, Fn(0), Fn(1), Fn(2)}

OptionsSet ==
    [authorizationURL : {Undefined, Str("https://idp.example/auth")},
     tokenURL : {Undefined, Str("https://idp.example/token")},
     passReqToCallback : {False, True},
     skipUserProfile : SkipPolicies]

-----------------------------------------------------------------------------
(* Requests.                                                                *)

NoRequest == [query |-> Undefined, body |-> Undefined, headers |-> Undefined]

BodyContainers ==
    {Undefined} \cup
    {Container(at, rt, Undefined) :
        at \in {Undefined, Str(""), Str("tok-body")},
        rt \in {Undefined, Str("ref-body")}}

QueryContainers ==
    {Undefined} \cup
    {Container(at, rt, er) :
        at \in {Undefined, Str("tok-query")},
        rt \in {Undefined, Str("ref-query")},
        er \in {Undefined, Str("access_denied")}}

HeaderContainers ==
    {Undefined} \cup
    {Container(at, rt, Undefined) :
        at \in {Undefined, Str("tok-header")},
        rt \in {Undefined, Str("ref-header")}}

Requests == [query : QueryContainers, body : BodyContainers,
             headers : HeaderContainers]

-----------------------------------------------------------------------------
(* Credential extraction (lines 81-96).                                     *)

(* obj[k]: a property read; it throws on an absent container. *)
Prop(obj, k) == IF obj.t \in {"undefined", "null"}
                THEN Throw(TypeError)
                ELSE Ok(obj[k])

(* r || next, where evaluating either side may throw. *)
OrElse(r, next) == IF ~r.ok THEN r
                   ELSE IF Truthy(r.v) THEN r
                   ELSE next

(* hasQueryError looking for the error indicator in the body. *)
hasQueryError_onBody(req) == Truthy(req.body) /\ Truthy(req.body.error)

(* Line 81: req.query && req.query.error *)
hasQueryError(req) == Truthy(req.query) /\ Truthy(req.query.error)

(* Lines 87-91 with k = "access_token", lines 92-96 with k = "refresh_token" *)
extractToken(req, k) ==
    IF Truthy(req.body)
    THEN OrElse(Prop(req.body, k),
                OrElse(Prop(req.query, k), Prop(req.headers, k)))
    ELSE OrElse(Prop(req.headers, k), Prop(req.query, k))

-----------------------------------------------------------------------------
(* Response bodies and JSON.parse (line 152).  A body is the sequence of    *)
(* its JSON tokens: punctuation P, string literals S, number literals N     *)
(* (by value) and bare words W.                                             *)

P(c) == <<"p", c>>
S(x) == <<"s", x>>
N(n) == <<"n", n>>
W(x) == <<"w", x>>

SyntaxError == Err("SyntaxError", "Unexpected token in JSON")

JsonObject(f) == [t |-> "object", f |-> f]

(* The tokens that are a JSON value on their own: a string, a number, and   *)
(* the words true, false and null.                                          *)
IsScalarToken(tok) ==
    \/ tok[1] \in {"s", "n"}
    \/ tok[1] = "w" /\ tok[2] \in {"true", "false", "null"}
ScalarOf(tok) ==
    CASE tok[1] = "s" -> Str(tok[2])
      [] tok[1] = "n" -> Num(tok[2])
      [] tok = W("true") -> True
      [] tok = W("false") -> False
      [] OTHER -> Null

IsP(toks, i, c) == i <= Len(toks) /\ toks[i][1] = "p" /\ toks[i][2] = c

(* A parsed value with the index of the token after it. *)
Parsed(v, next) == [ok |-> TRUE, v |-> v, next |-> next]

RECURSIVE ParseValue(_, _)
RECURSIVE ParseMembers(_, _, _)
RECURSIVE ParseElements(_, _, _)

(* The members of an object from token i on, up to its closing brace; acc   *)
(* holds the members read so far, and a repeated key keeps its last value.  *)
ParseMembers(toks, i, acc) ==
    IF i > Len(toks) \/ toks[i][1] # "s" \/ ~IsP(toks, i + 1, ":")
    THEN Throw(SyntaxError)
    ELSE LET val == ParseValue(toks, i + 2) IN
         IF ~val.ok THEN val
         ELSE LET acc2 == (toks[i][2] :> val.v) @@ acc IN
              IF IsP(toks, val.next, "}")
              THEN Parsed(JsonObject(acc2), val.next + 1)
              ELSE IF IsP(toks, val.next, ",")
              THEN ParseMembers(toks, val.next + 1, acc2)
              ELSE Throw(SyntaxError)

(* The elements of an array from token i on, up to its closing bracket. *)
ParseElements(toks, i, acc) ==
    LET val == ParseValue(toks, i) IN
    IF ~val.ok THEN val
    ELSE LET acc2 == Append(acc, val.v) IN
         IF IsP(toks, val.next, "]") THEN Parsed(Arr(acc2), val.next + 1)
         ELSE IF IsP(toks, val.next, ",")
         THEN ParseElements(toks, val.next + 1, acc2)
         ELSE Throw(SyntaxError)

(* The JSON value that starts at token i. *)
ParseValue(toks, i) ==
    IF i > Len(toks) THEN Throw(SyntaxError)
    ELSE IF IsP(toks, i, "{")
    THEN IF IsP(toks, i + 1, "}") THEN Parsed(JsonObject(<<>>), i + 2)
         ELSE ParseMembers(toks, i + 1, <<>>)
    ELSE IF IsP(toks, i, "[")
    THEN IF IsP(toks, i + 1, "]") THEN Parsed(Arr(<<>>), i + 2)
         ELSE ParseElements(toks, i + 1, <<>>)
    ELSE IF IsScalarToken(toks[i]) THEN Parsed(ScalarOf(toks[i]), i + 1)
    ELSE Throw(SyntaxError)

(* JSON.parse(body): the value the whole text denotes, or a SyntaxError. *)
JSONParse(toks) ==
    LET val == ParseValue(toks, 1) IN
    IF ~val.ok THEN val
    ELSE IF val.next # Len(toks) + 1 THEN Throw(SyntaxError)
    ELSE Ok(val.v)

(* String.prototype.sub, which a string value inherits. *)
StringSub == [t |-> "function", name |-> "sub", length |-> 0]

(* json.k for the members read at lines 157-163: reading a member of null   *)
(* throws; an object gives its member; a string gives the inherited method  *)
(* for sub; no other value has any of them.                                 *)
Member(json, k) ==
    IF json.t \in {"undefined", "null"} THEN Throw(TypeError)
    ELSE IF json.t = "object" /\ k \in DOMAIN json.f THEN Ok(json.f[k])
    ELSE IF json.t = "string" /\ k = "sub" THEN Ok(StringSub)
    ELSE Ok(Undefined)

(* Line 139-140: the introspection URL, the fixed prefix followed by the    *)
(* access token converted to a string.                                      *)
TokenInfoURL == "https://www.googleapis.com/oauth2/v3/tokeninfo?id_token="
(* profileUrlOf leaving the token out of the URL. *)
profileUrlOf_noToken(accessToken) == Ok(<<TokenInfoURL, "">>)

profileUrlOf(accessToken) ==
    LET text == ToStr(accessToken)
    IN  IF ~text.ok THEN text ELSE Ok(<<TokenInfoURL, text.v>>)

(* buildProfile preferring the sub claim to the id claim. *)
buildProfile_subFirst(profileUrl, body) ==
    LET parsed == JSONParse(body) IN
    IF ~parsed.ok THEN parsed
    ELSE IF ~Member(parsed.v, "id").ok THEN Member(parsed.v, "id")
    ELSE LET json == parsed.v IN
         Ok([t |-> "object",
             profileUrl |-> profileUrl,
             provider |-> "google",
             id |-> OrValue(Member(json, "sub").v, Member(json, "id").v),
             displayName |-> Member(json, "name").v,
             name |-> [familyName |-> Member(json, "family_name").v,
                       givenName |-> Member(json, "given_name").v],
             emails |-> <<[value |-> Member(json, "email").v]>>,
             _raw |-> body,
             _json |-> json])

(* Lines 152-166: parse the body and build the normalized profile.  The     *)
(* result is the profile or the exception thrown inside the try block.      *)
buildProfile(profileUrl, body) ==
    LET parsed == JSONParse(body) IN
    IF ~parsed.ok THEN parsed
    ELSE IF ~Member(parsed.v, "id").ok THEN Member(parsed.v, "id")
    ELSE LET json == parsed.v IN
         Ok([t |-> "object",
             profileUrl |-> profileUrl,
             provider |-> "google",
             id |-> OrValue(Member(json, "id").v, Member(json, "sub").v),
             displayName |-> Member(json, "name").v,
             name |-> [familyName |-> Member(json, "family_name").v,
                       givenName |-> Member(json, "given_name").v],
             emails |-> <<[value |-> Member(json, "email").v]>>,
             _raw |-> body,
             _json |-> json])

BodyFull == <<P("{"), S("id"), P(":"), S("1"), P(","),
              S("name"), P(":"), S("N"), P(","),
              S("email"), P(":"), S("e@x.com"), P("}")>>
BodySub == <<P("{"), S("sub"), P(":"), S("42"), P(","),
             S("name"), P(":"), S("A B"), P(","),
             S("email"), P(":"), S("a@b.com"), P("}")>>
BodyIdAndSub == <<P("{"), S("id"), P(":"), S("1"), P(","),
                  S("sub"), P(":"), S("42"), P("}")>>
BodyNullId == <<P("{"), S("id"), P(":"), W("null"), P(","),
                S("sub"), P(":"), S("42"), P("}")>>
BodyZeroId == <<P("{"), S("id"), P(":"), N(0), P(","),
                S("sub"), P(":"), S("42"), P("}")>>
BodyTyped == <<P("{"), S("id"), P(":"), N(7), P(","),
               S("email"), P(":"), S("e@x.com"), P(","),
               S("email_verified"), P(":"), W("true"), P(","),
               S("aud"), P(":"), P("["), S("a"), P(","),
                   P("{"), S("b"), P(":"), W("null"), P("}"), P("]"), P("}")>>
BodyString == <<S("abc")>>
BodyEmptyObject == <<P("{"), P("}")>>
BodyNull == <<W("null")>>
BodyHtml == <<W("<html>"), W("Bad"), W("Gateway"), W("</html>")>>
BodyTruncated == <<P("{"), S("id"), P(":"), S("1")>>
BodyEmpty == <<>>

(* Bodies that are not JSON text. *)
MalformedBodies == {BodyHtml, BodyTruncated, BodyEmpty}

Bodies == {BodyFull, BodySub, BodyIdAndSub, BodyNullId, BodyZeroId, BodyTyped,
           BodyString, BodyEmptyObject, BodyNull}
              \cup MalformedBodies

-----------------------------------------------------------------------------
(* One authentication attempt.  pc is where the attempt stands; the         *)
(* closure variables req, accessToken and refreshToken of authenticate are  *)
(* kept with it.  The remaining fields log, in order, every call the        *)
(* attempt made to a collaborator and every continuation invoked for it:    *)
(*   loadCalls      the access tokens passed to _loadUserProfile            *)
(*   skipCalls      calls of the skip predicate: arguments, returned value  *)
(*   skipCbs        (err, skip) reported by the async skip predicate        *)
(*   httpCalls      URLs passed to _oauth2.get                              *)
(*   httpCbs        (err, body) delivered by _oauth2.get                    *)
(*   loadDone       (err, profile) passed to the done of _loadUserProfile   *)
(*   verifyCalls    argument lists passed to the verify callback            *)
(*   verifiedCalls  (err, user, info) passed to verified                    *)
(*   sinks          outcome sinks invoked: name, arguments, source line     *)
(*   uncaught       the exception that left the current run, if any        *)

IdleAttempt ==
    [pc |-> "idle", req |-> NoRequest,
     accessToken |-> Undefined, refreshToken |-> Undefined,
     loadCalls |-> <<>>, skipCalls |-> <<>>, skipCbs |-> <<>>,
     httpCalls |-> <<>>, httpCbs |-> <<>>, loadDone |-> <<>>,
     verifyCalls |-> <<>>, verifiedCalls |-> <<>>,
     sinks |-> <<>>, uncaught |-> <<>>]

(* The functions handed to collaborators as continuations. *)
VerifiedFn == [t |-> "function", name |-> "verified"]
SkipCbFn == [t |-> "function", name |-> "skipCallback"]

(* this.fail / this.error / this.success called with args at a source line. *)
Sink(s, name, args, line) ==
    [s EXCEPT !.sinks = Append(@, [sink |-> name, args |-> args, line |-> line])]

(* verified dropping the query container of the request once the outcome   *)
(* is known.                                                                *)
verified_dropsQuery(s, err, user, info) ==
    LET s1 == [s EXCEPT !.verifiedCalls =
                   Append(@, [err |-> err, user |-> user, info |-> info]),
                        !.req.query = Undefined]
    IN  IF Truthy(err) THEN Sink(s1, "error", <<err>>, 105)
        ELSE IF ~Truthy(user) THEN Sink(s1, "fail", <<info>>, 108)
        ELSE Sink(s1, "success", <<user, info>>, 110)

(* verified failing without the reason. *)
verified_dropInfo(s, err, user, info) ==
    LET s1 == [s EXCEPT !.verifiedCalls =
                   Append(@, [err |-> err, user |-> user, info |-> info])]
    IN  IF Truthy(err) THEN Sink(s1, "error", <<err>>, 105)
        ELSE IF ~Truthy(user) THEN Sink(s1, "fail", <<>>, 108)
        ELSE Sink(s1, "success", <<user, info>>, 110)

(* Lines 103-111: the continuation handed to the verify callback. *)
verified(s, err, user, info) ==
    LET s1 == [s EXCEPT !.verifiedCalls =
                   Append(@, [err |-> err, user |-> user, info |-> info])]
    IN  IF Truthy(err) THEN Sink(s1, "error", <<err>>, 105)
        ELSE IF ~Truthy(user) THEN Sink(s1, "fail", <<info>>, 108)
        ELSE Sink(s1, "success", <<user, info>>, 110)

(* What the application's verify callback does when it is called: it calls  *)
(* verified(err, user, info) before returning ("sync"), returns and calls   *)
(* it later ("async"), calls it and then throws ("syncThrow"), or throws    *)
(* without calling it ("throw").                                            *)
AppException == Err("Error", "thrown by the application")
VerifyErrors == {Null, Err("Error", "verify failed")}
VerifyUsers == {False, Str("user-1")}
VerifyInfos == {Undefined, Str("bad creds")}
VerifyBehaviours ==
    [mode : {"sync", "syncThrow"}, err : VerifyErrors,
     user : VerifyUsers, info : VerifyInfos]
    \cup [mode : {"async", "throw"}, err : {Null},
          user : {False}, info : {Undefined}]

(* verifyArgs taking the tokens from a slot the attempts share, which holds *)
(* those of the attempt started last.                                       *)
verifyArgs_sharedSlot(st, s, profile) ==
    LET started == {b \in Attempts : att[b].pc # "idle"}
        slot == IF started = {} THEN s
                ELSE att[CHOOSE b \in started : \A c \in started : c <= b]
    IN  IF Truthy(st._passReqToCallback)
        THEN <<s.req, slot.accessToken, slot.refreshToken, profile, VerifiedFn>>
        ELSE <<slot.accessToken, slot.refreshToken, profile, VerifiedFn>>

(* verifyArgs never passing the request. *)
verifyArgs_noReq(st, s, profile) ==
    <<s.accessToken, s.refreshToken, profile, VerifiedFn>>

(* Lines 113-117: the verify callback is called, with the request first     *)
(* when passReqToCallback is set; vb is what the callback then does.        *)
verifyArgs(st, s, profile) ==
    IF Truthy(st._passReqToCallback)
    THEN <<s.req, s.accessToken, s.refreshToken, profile, VerifiedFn>>
    ELSE <<s.accessToken, s.refreshToken, profile, VerifiedFn>>

callVerify(st, s, profile, vb) ==
    LET s1 == [s EXCEPT !.verifyCalls = Append(@, verifyArgs(st, s, profile))]
    IN  CASE vb.mode = "async" -> [s1 EXCEPT !.pc = "verifyWait"]
          [] vb.mode = "sync" -> verified(s1, vb.err, vb.user, vb.info)
          [] vb.mode = "syncThrow" ->
                [verified(s1, vb.err, vb.user, vb.info)
                    EXCEPT !.uncaught = <<AppException>>]
          [] vb.mode = "throw" -> [s1 EXCEPT !.uncaught = <<AppException>>]

(* loadCallback going on to the verify callback whatever err is. *)
loadCallback_ignoreErr(st, s, err, profile, vb) ==
    LET s1 == [s EXCEPT !.loadDone =
                   Append(@, [err |-> err, profile |-> profile])]
    IN  callVerify(st, s1, profile, vb)

(* Lines 98-118: the completion callback authenticate passes to             *)
(* _loadUserProfile.                                                        *)
loadCallback(st, s, err, profile, vb) ==
    LET s1 == [s EXCEPT !.loadDone =
                   Append(@, [err |-> err, profile |-> profile])]
    IN  IF Truthy(err) THEN Sink(s1, "fail", <<err>>, 100)
        ELSE callVerify(st, s1, profile, vb)

(* Lines 144-147: the wrapped provider-communication error. *)
InternalOAuthError(message, err) ==
    [t |-> "error", kind |-> "InternalOAuthError", message |-> message,
     oauthError |-> err]

(* Lines 135-141: userProfile builds the URL, issues the HTTP get and       *)
(* returns; an exception thrown while building the URL leaves it before    *)
(* the get is issued.                                                       *)
userProfile(s, accessToken) ==
    LET profileUrl == profileUrlOf(accessToken)
    IN  IF ~profileUrl.ok THEN [s EXCEPT !.uncaught = <<profileUrl.v>>]
        ELSE [s EXCEPT !.httpCalls = Append(@, profileUrl.v),
                       !.pc = "httpWait"]

(* getCallback wrapping every failure as a provider-communication error. *)
getCallback_wrapAll(st, s, err, body, vb) ==
    LET s1 == [s EXCEPT !.httpCbs = Append(@, [err |-> err, body |-> body])]
        profileUrl == s.httpCalls[Len(s.httpCalls)]
        built == buildProfile(profileUrl, body)
    IN  IF Truthy(err)
        THEN loadCallback(st, s1,
                 InternalOAuthError("failed to fetch user profile", err),
                 Undefined, vb)
        ELSE IF ~built.ok
        THEN loadCallback(st, s1,
                 InternalOAuthError("failed to fetch user profile", built.v),
                 Undefined, vb)
        ELSE LET s2 == loadCallback(st, s1, Null, built.v, vb)
             IN  IF s2.uncaught = <<>> THEN s2
                 ELSE loadCallback(st, [s2 EXCEPT !.uncaught = <<>>],
                                   s2.uncaught[1], Undefined, vb)

(* Lines 141-172: the callback of the HTTP get.  done(null, profile) runs   *)
(* inside the try block, so an exception leaving done is caught and done    *)
(* is called again with it.                                                 *)
getCallback(st, s, err, body, vb) ==
    LET s1 == [s EXCEPT !.httpCbs = Append(@, [err |-> err, body |-> body])]
        profileUrl == s.httpCalls[Len(s.httpCalls)]
        built == buildProfile(profileUrl, body)
    IN  IF Truthy(err)
        THEN loadCallback(st, s1,
                 InternalOAuthError("failed to fetch user profile", err),
                 Undefined, vb)
        ELSE IF ~built.ok
        THEN loadCallback(st, s1, built.v, Undefined, vb)
        ELSE LET s2 == loadCallback(st, s1, Null, built.v, vb)
             IN  IF s2.uncaught = <<>> THEN s2
                 ELSE loadCallback(st, [s2 EXCEPT !.uncaught = <<>>],
                                   s2.uncaught[1], Undefined, vb)

(* skipIt completing with an empty profile object. *)
skipIt_dummyProfile(st, s, vb) ==
    loadCallback(st, s, Null, [t |-> "object"], vb)

(* Lines 188-190 *)
loadIt(s, accessToken) == userProfile(s, accessToken)

(* Lines 191-193 *)
skipIt(st, s, vb) == loadCallback(st, s, Null, Undefined, vb)

(* isAsyncPolicy taking any function with a parameter for asynchronous. *)
isAsyncPolicy_anyParameter(policy) ==
    policy.t = "function" /\ policy.length >= 1

(* Lines 195-198: the policy is an asynchronous predicate. *)
isAsyncPolicy(policy) == policy.t = "function" /\ policy.length > 1

(* Lines 182-219: ret is what a synchronous predicate returns. *)
_loadUserProfile(st, s, accessToken, ret, vb) ==
    LET policy == st._skipUserProfile
        s1 == [s EXCEPT !.loadCalls = Append(@, accessToken)]
    IN  IF isAsyncPolicy(policy)
        THEN [s1 EXCEPT !.skipCalls =
                  Append(@, [args |-> <<accessToken, SkipCbFn>>,
                             ret |-> Undefined]),
                        !.pc = "skipWait"]
        ELSE LET isFn == policy.t = "function"
                 skip == IF isFn THEN ret ELSE policy
                 s2 == IF isFn
                       THEN [s1 EXCEPT !.skipCalls =
                                Append(@, [args |-> <<>>, ret |-> ret])]
                       ELSE s1
             IN  IF ~Truthy(skip) THEN loadIt(s2, accessToken)
                 ELSE skipIt(st, s2, vb)

(* skipCallback looking at skip before err. *)
skipCallback_skipFirst(st, s, err, skip, vb) ==
    LET s1 == [s EXCEPT !.skipCbs = Append(@, [err |-> err, skip |-> skip])]
    IN  IF ~Truthy(skip) THEN loadIt(s1, s.accessToken)
        ELSE IF Truthy(err) THEN loadCallback(st, s1, err, Undefined, vb)
        ELSE skipIt(st, s1, vb)

(* Lines 200-208: the callback of the asynchronous predicate. *)
skipCallback(st, s, err, skip, vb) ==
    LET s1 == [s EXCEPT !.skipCbs = Append(@, [err |-> err, skip |-> skip])]
    IN  IF Truthy(err) THEN loadCallback(st, s1, err, Undefined, vb)
        ELSE IF ~Truthy(skip) THEN loadIt(s1, s.accessToken)
        ELSE skipIt(st, s1, vb)

(* Lines 77-119 *)
authenticate(st, s, req, ret, vb) ==
    LET s1 == [s EXCEPT !.req = req, !.pc = "done"]
        at == extractToken(req, "access_token")
        rt == extractToken(req, "refresh_token")
    IN  IF hasQueryError(req) THEN Sink(s1, "fail", <<>>, 84)
        ELSE IF ~at.ok THEN [s1 EXCEPT !.uncaught = <<at.v>>]
        ELSE IF ~rt.ok THEN [s1 EXCEPT !.uncaught = <<rt.v>>]
        ELSE _loadUserProfile(st,
                 [s1 EXCEPT !.accessToken = at.v, !.refreshToken = rt.v],
                 at.v, ret, vb)

-----------------------------------------------------------------------------
(* The environment's choices.                                               *)

(* Values a synchronous skip predicate may return. *)
SyncReturns == {Undefined, False, True, Str("yes")}

(* What an asynchronous skip predicate may report. *)
SkipErrors == {Null, Err("Error", "skip predicate failed")}
SkipValues == {Undefined, False, True}

(* What _oauth2.get may deliver: a body, or a transport error (with         *)
(* whatever body came along).                                               *)
TransportError == [t |-> "object", statusCode |-> 401, data |-> "invalid"]
HttpResults ==
    [err : {Null}, body : Bodies]
    \cup [err : {TransportError}, body : {BodyFull, BodyHtml}]

-----------------------------------------------------------------------------
(* Actions: each is one run to completion.                                  *)

Init == /\ optionsGiven \in OptionsSet
        /\ strategy = GoogleTokenStrategy(optionsGiven)
        /\ att = [a \in Attempts |-> IdleAttempt]

(* The framework calls authenticate(req, options) for attempt a. *)
Authenticate(a) ==
    /\ att[a].pc = "idle"
    /\ \E req \in Requests, ret \in SyncReturns, vb \in VerifyBehaviours :
          att' = [att EXCEPT ![a] = authenticate(strategy, @, req, ret, vb)]
    /\ UNCHANGED <<optionsGiven, strategy>>

(* The asynchronous skip predicate invokes its callback. *)
SkipPredicateReports(a) ==
    /\ att[a].pc = "skipWait"
    /\ \E err \in SkipErrors, skip \in SkipValues, vb \in VerifyBehaviours :
          att' = [att EXCEPT ![a] =
                     skipCallback(strategy, [@ EXCEPT !.pc = "done"],
                                  err, skip, vb)]
    /\ UNCHANGED <<optionsGiven, strategy>>

(* The HTTP get invokes its callback. *)
HttpGetCompletes(a) ==
    /\ att[a].pc = "httpWait"
    /\ \E r \in HttpResults, vb \in VerifyBehaviours :
          att' = [att EXCEPT ![a] =
                     getCallback(strategy, [@ EXCEPT !.pc = "done"],
                                 r.err, r.body, vb)]
    /\ UNCHANGED <<optionsGiven, strategy>>

(* The application invokes verified some time after verify returned. *)
VerifyReports(a) ==
    /\ att[a].pc = "verifyWait"
    /\ \E err \in VerifyErrors, user \in VerifyUsers, info \in VerifyInfos :
          att' = [att EXCEPT ![a] =
                     verified([@ EXCEPT !.pc = "done"], err, user, info)]
    /\ UNCHANGED <<optionsGiven, strategy>>

(* One attempt, over every request, configuration and collaborator answer; *)
(* the other attempts stay idle.                                            *)
Next == \/ Authenticate(1)
        \/ SkipPredicateReports(1)
        \/ HttpGetCompletes(1)
        \/ VerifyReports(1)

Spec == Init /\ [][Next]_vars

-----------------------------------------------------------------------------
(* Interleaved attempts.  Every attempt may be started and every pending    *)
(* continuation of every attempt may be invoked, in any order.  The inputs  *)
(* are drawn from subsets of the sets above in which the requests carry     *)
(* different tokens and the responses different claims.                     *)

NoFields == Container(Undefined, Undefined, Undefined)

ConcOptions ==
    [authorizationURL : {Undefined}, tokenURL : {Undefined},
     passReqToCallback : {False, True},
     skipUserProfile : {Undefined, Fn(1), Fn(2)}]

ConcRequests ==
    {[query |-> NoFields,
      body |-> Container(Str("tok-body"), Str("ref-body"), Undefined),
      headers |-> NoFields],
     [query |-> Container(Str("tok-query"), Undefined, Undefined),
      body |-> Undefined,
      headers |-> Container(Str("tok-header"), Str("ref-header"), Undefined)],
     [query |-> Container(Undefined, Undefined, Str("access_denied")),
      body |-> Undefined,
      headers |-> Container(Str("tok-header"), Undefined, Undefined)],
     [query |-> Undefined,
      body |-> Undefined,
      headers |-> Container(Str("tok-header"), Undefined, Undefined)]}

ConcSyncReturns == {False, True}

ConcVerifyBehaviours ==
    {[mode |-> "sync", err |-> Null, user |-> Str("user-1"),
      info |-> Undefined],
     [mode |-> "async", err |-> Null, user |-> False, info |-> Undefined],
     [mode |-> "throw", err |-> Null, user |-> False, info |-> Undefined]}

ConcSkipReports ==
    {[err |-> Null, skip |-> False], [err |-> Null, skip |-> True],
     [err |-> Err("Error", "skip predicate failed"), skip |-> Undefined]}

ConcHttpResults ==
    {[err |-> Null, body |-> BodyFull], [err |-> Null, body |-> BodySub],
     [err |-> TransportError, body |-> BodyHtml]}

ConcVerifyReports ==
    {[err |-> Null, user |-> Str("user-1"), info |-> Undefined],
     [err |-> Null, user |-> False, info |-> Str("bad creds")],
     [err |-> Err("Error", "verify failed"), user |-> False,
      info |-> Undefined]}

InitConc == /\ optionsGiven \in ConcOptions
            /\ strategy = GoogleTokenStrategy(optionsGiven)
            /\ att = [a \in Attempts |-> IdleAttempt]

AuthenticateConc(a) ==
    /\ att[a].pc = "idle"
    /\ \E req \in ConcRequests, ret \in ConcSyncReturns,
          vb \in ConcVerifyBehaviours :
          att' = [att EXCEPT ![a] = authenticate(strategy, @, req, ret, vb)]
    /\ UNCHANGED <<optionsGiven, strategy>>

SkipPredicateReportsConc(a) ==
    /\ att[a].pc = "skipWait"
    /\ \E r \in ConcSkipReports, vb \in ConcVerifyBehaviours :
          att' = [att EXCEPT ![a] =
                     skipCallback(strategy, [@ EXCEPT !.pc = "done"],
                                  r.err, r.skip, vb)]
    /\ UNCHANGED <<optionsGiven, strategy>>

HttpGetCompletesConc(a) ==
    /\ att[a].pc = "httpWait"
    /\ \E r \in ConcHttpResults, vb \in ConcVerifyBehaviours :
          att' = [att EXCEPT ![a] =
                     getCallback(strategy, [@ EXCEPT !.pc = "done"],
                                 r.err, r.body, vb)]
    /\ UNCHANGED <<optionsGiven, strategy>>

VerifyReportsConc(a) ==
    /\ att[a].pc = "verifyWait"
    /\ \E r \in ConcVerifyReports :
          att' = [att EXCEPT ![a] =
                     verified([@ EXCEPT !.pc = "done"], r.err, r.user, r.info)]
    /\ UNCHANGED <<optionsGiven, strategy>>

NextConc == \/ \E a \in Attempts : AuthenticateConc(a)
            \/ \E a \in Attempts : SkipPredicateReportsConc(a)
            \/ \E a \in Attempts : HttpGetCompletesConc(a)
            \/ \E a \in Attempts : VerifyReportsConc(a)

SpecConc == InitConc /\ [][NextConc]_vars

-----------------------------------------------------------------------------
(* Properties.                                                              *)

(* The values that count as absent: undefined, null, false, "" and 0. *)
Falsy(v) == v \in {Undefined, Null, False, Str(""), Num(0)}

(* The field k of a container, undefined when the container is absent. *)
FieldOf(c, k) == IF c.t = "object" THEN c[k] ELSE Undefined

(* The first truthy value of a sequence of candidates, as <<v>>, or <<>>. *)
FirstPresent(cands) ==
    LET present == {i \in DOMAIN cands : Truthy(cands[i])}
    IN  IF present = {} THEN <<>>
        ELSE <<cands[CHOOSE i \in present : \A j \in present : i <= j]>>

(* tok is the first present candidate, and falsy when none is present. *)
IsFirstPresent(tok, cands) ==
    IF FirstPresent(cands) = <<>> THEN ~Truthy(tok)
    ELSE tok = FirstPresent(cands)[1]

(* The attempt has run its credential extraction to the end. *)
Extracted(s) == Len(s.loadCalls) = 1

(* C1: every authenticate call that has run to its end, with every          *)
(* continuation it handed out invoked exactly once, has invoked exactly one *)
(* outcome sink, exactly once.                                              *)
C1_ExactlyOneOutcome ==
    \A a \in Attempts :
        (/\ att[a].pc = "done"
         /\ Len(att[a].verifiedCalls) = Len(att[a].verifyCalls))
        => Len(att[a].sinks) = 1

(* C2: whenever profile loading completes with an error, the error sink is  *)
(* invoked with that error and the fail sink is never invoked.              *)
C2_LoadErrorSignalsError ==
    \A a \in Attempts : \A i \in DOMAIN att[a].loadDone :
        Truthy(att[a].loadDone[i].err) =>
            /\ \E j \in DOMAIN att[a].sinks :
                  /\ att[a].sinks[j].sink = "error"
                  /\ att[a].sinks[j].args = <<att[a].loadDone[i].err>>
            /\ \A j \in DOMAIN att[a].sinks : att[a].sinks[j].sink # "fail"

SinksOfVerified(s) == SelectSeq(s.sinks, LAMBDA k : k.line \in {105, 108, 110})

(* C3: each call verified(err, user, info) invokes exactly one sink: error  *)
(* with err when err is present; fail with info when err is absent and      *)
(* user is falsy; success with user and info otherwise.                     *)
C3_VerifiedTranslation ==
    \A a \in Attempts :
        /\ Len(SinksOfVerified(att[a])) = Len(att[a].verifiedCalls)
        /\ \A i \in DOMAIN att[a].verifiedCalls :
              LET v == att[a].verifiedCalls[i]
                  k == SinksOfVerified(att[a])[i]
              IN  IF v.err.t \notin {"null", "undefined"}
                  THEN k.sink = "error" /\ k.args = <<v.err>>
                  ELSE IF v.user \in {False, Undefined, Null, Str(""), Num(0)}
                  THEN k.sink = "fail" /\ k.args = <<v.info>>
                  ELSE k.sink = "success" /\ k.args = <<v.user, v.info>>
C3_Witness ==
    \E a \in Attempts :
        /\ att[a].verifiedCalls =
              <<[err |-> Null, user |-> False, info |-> Str("bad creds")]>>
        /\ att[a].sinks =
              <<[sink |-> "fail", args |-> <<Str("bad creds")>>, line |-> 108]>>

QueryErrorSet(req) ==
    /\ req.query.t = "object"
    /\ req.query.error \notin {Undefined, Null, False, Str(""), Num(0)}

(* C4: a request whose query.error is set (to a non-empty value) gets       *)
(* fail() with no reason, and neither the loader, the skip predicate, the   *)
(* HTTP get nor the verify callback is invoked for it, whatever tokens it   *)
(* carries.                                                                 *)
C4_QueryErrorFailsImmediately ==
    \A a \in Attempts :
        (att[a].pc # "idle" /\ QueryErrorSet(att[a].req)) =>
            /\ att[a].pc = "done"
            /\ att[a].sinks = <<[sink |-> "fail", args |-> <<>>, line |-> 84]>>
            /\ att[a].loadCalls = <<>> /\ att[a].skipCalls = <<>>
            /\ att[a].httpCalls = <<>> /\ att[a].verifyCalls = <<>>
            /\ att[a].uncaught = <<>>
C4_Witness ==
    \E a \in Attempts :
        /\ att[a].pc = "done" /\ QueryErrorSet(att[a].req)
        /\ FieldOf(att[a].req.body, "access_token") = Str("tok-body")
        /\ FieldOf(att[a].req.headers, "access_token") = Str("tok-header")
        /\ Len(att[a].sinks) = 1

CandidatesWithBody(req, k) ==
    <<FieldOf(req.body, k), FieldOf(req.query, k), FieldOf(req.headers, k)>>

CandidatesWithoutBody(req, k) ==
    <<FieldOf(req.headers, k), FieldOf(req.query, k)>>

(* The attempt was started with a request that is not failed at line 84. *)
Proceeds(s) == s.pc # "idle" /\ ~QueryErrorSet(s.req)

(* C5: for any request with a body container, the access token and the     *)
(* refresh token used for the attempt are each the first present (truthy)   *)
(* value in the order body, query, header.                                  *)
C5_BodyPrecedence ==
    \A a \in Attempts :
        (Proceeds(att[a]) /\ att[a].req.body.t = "object") =>
            /\ Extracted(att[a])
            /\ att[a].loadCalls = <<att[a].accessToken>>
            /\ IsFirstPresent(att[a].accessToken,
                              CandidatesWithBody(att[a].req, "access_token"))
            /\ IsFirstPresent(att[a].refreshToken,
                              CandidatesWithBody(att[a].req, "refresh_token"))

(* C6: for any request lacking a body container, the access token and the   *)
(* refresh token used for the attempt are each the header value if present  *)
(* and otherwise the query value.                                           *)
C6_HeaderPrecedenceWithoutBody ==
    \A a \in Attempts :
        (Proceeds(att[a]) /\ att[a].req.body = Undefined) =>
            /\ Extracted(att[a])
            /\ att[a].loadCalls = <<att[a].accessToken>>
            /\ IsFirstPresent(att[a].accessToken,
                              CandidatesWithoutBody(att[a].req, "access_token"))
            /\ IsFirstPresent(att[a].refreshToken,
                              CandidatesWithoutBody(att[a].req, "refresh_token"))

(* What does hold of lines 87-96: an attempt whose extraction ran to its    *)
(* end (no read of an absent container) has the tokens in the stated order, *)
(* body or no body.                                                         *)
ExtractionOrderWhenCompleted ==
    \A a \in Attempts :
        Extracted(att[a]) =>
            \A k \in {"access_token", "refresh_token"} :
                LET tok == IF k = "access_token" THEN att[a].accessToken
                           ELSE att[a].refreshToken
                IN  IF att[a].req.body.t = "object"
                    THEN IsFirstPresent(tok, CandidatesWithBody(att[a].req, k))
                    ELSE IsFirstPresent(tok, CandidatesWithoutBody(att[a].req, k))

(* Every container the extraction has to read is there. *)
ContainersPresent(req) ==
    req.query.t = "object" /\ req.headers.t = "object"

(* Extraction runs to its end whenever query and headers are present. *)
ExtractionCompletesWithContainers ==
    \A a \in Attempts :
        (Proceeds(att[a]) /\ ContainersPresent(att[a].req)) => Extracted(att[a])

ResolvedToSkip(pol, s) ==
    \/ /\ pol.t # "function"
       /\ pol.t \notin {"undefined", "null"} /\ pol # False
       /\ Extracted(s)
    \/ /\ pol.t = "function" /\ pol.length <= 1
       /\ Len(s.skipCalls) = 1
       /\ s.skipCalls[1].ret \notin {Undefined, Null, False, Str(""), Num(0)}
    \/ /\ pol.t = "function" /\ pol.length >= 2
       /\ Len(s.skipCbs) = 1
       /\ s.skipCbs[1].err \in {Undefined, Null}
       /\ s.skipCbs[1].skip \notin {Undefined, Null, False, Str(""), Num(0)}
ProfileArg(args) == args[Len(args) - 1]

(* C7: when the skip policy resolves to skip, profile loading completes     *)
(* once with (null, undefined), no HTTP get is issued, and the verify       *)
(* callback is invoked with an absent profile.                              *)
C7_SkipDeliversNoProfile ==
    \A a \in Attempts :
        ResolvedToSkip(strategy._skipUserProfile, att[a]) =>
            /\ att[a].loadDone = <<[err |-> Null, profile |-> Undefined]>>
            /\ att[a].httpCalls = <<>> /\ att[a].httpCbs = <<>>
            /\ Len(att[a].verifyCalls) = 1
            /\ ProfileArg(att[a].verifyCalls[1]) = Undefined
C7_Witness ==
    \E a \in Attempts :
        /\ strategy._skipUserProfile = True
        /\ Extracted(att[a])
        /\ att[a].loadDone = <<[err |-> Null, profile |-> Undefined]>>
        /\ Len(att[a].verifyCalls) = 1
        /\ att[a].httpCalls = <<>>

(* C8: when the asynchronous skip predicate reports an error, profile       *)
(* loading completes once, with exactly that error, and no HTTP get is      *)
(* issued, whatever skip value came with the error.                         *)
C8_AsyncSkipErrorPropagates ==
    \A a \in Attempts : \A i \in DOMAIN att[a].skipCbs :
        att[a].skipCbs[i].err \notin {Undefined, Null} =>
            /\ att[a].loadDone =
                  <<[err |-> att[a].skipCbs[i].err, profile |-> Undefined]>>
            /\ att[a].httpCalls = <<>>
C8_Witness ==
    \E a \in Attempts :
        /\ Len(att[a].skipCbs) = 1
        /\ att[a].skipCbs[1].err = Err("Error", "skip predicate failed")
        /\ att[a].skipCbs[1].skip = False
        /\ Len(att[a].loadDone) = 1
        /\ att[a].httpCalls = <<>>

LoadSuccesses(s) == {i \in DOMAIN s.loadDone : s.loadDone[i].err = Null}
NoRefreshToken(req) ==
    \A c \in {req.body, req.query, req.headers} :
        FieldOf(c, "refresh_token") = Undefined

(* C9: the verify callback is invoked once for a profile load that          *)
(* succeeded and never otherwise, with the tokens extracted from the        *)
(* attempt's own request (the refresh token undefined when the request      *)
(* carries none) and the profile the load produced for that token, the      *)
(* request first exactly when passReqToCallback is set.                     *)
C9_VerifyArguments ==
    \A a \in Attempts :
        LET s == att[a] IN
        /\ Cardinality(LoadSuccesses(s)) <= 1
        /\ Len(s.verifyCalls) = Cardinality(LoadSuccesses(s))
        /\ \A i \in LoadSuccesses(s) :
              LET profile == s.loadDone[i].profile
                  at == extractToken(s.req, "access_token").v
                  rt == extractToken(s.req, "refresh_token").v
              IN  /\ s.verifyCalls[1] =
                        IF strategy._passReqToCallback = True
                        THEN <<s.req, at, rt, profile, VerifiedFn>>
                        ELSE <<at, rt, profile, VerifiedFn>>
                  /\ NoRefreshToken(s.req) => rt = Undefined
                  /\ profile # Undefined =>
                        /\ profile.profileUrl = <<TokenInfoURL, ToStr(at).v>>
                        /\ s.httpCalls = <<profile.profileUrl>>
C9_Witness ==
    \E a \in Attempts :
        /\ strategy._passReqToCallback = True
        /\ Len(att[a].verifyCalls) = 1
        /\ att[a].verifyCalls[1][1] = att[a].req
        /\ att[a].verifyCalls[1][2] = Str("tok-body")
        /\ att[a].verifyCalls[1][3] = Undefined
        /\ att[a].verifyCalls[1][4].t = "object"
        /\ att[a].verifyCalls[1][4].id = Str("1")
        /\ att[a].verifyCalls[1][4].profileUrl = <<TokenInfoURL, "tok-body">>

(* C10: a transport error of the HTTP get completes the fetch once, with    *)
(* the wrapped provider-communication error carrying the original error,    *)
(* whatever the body; a body that is not JSON on a successful response      *)
(* completes it once with a parse error that is not the wrapped error; in   *)
(* both cases no profile is delivered.                                      *)
C10_FetchFailureKinds ==
    \A a \in Attempts : \A i \in DOMAIN att[a].httpCbs :
        LET r == att[a].httpCbs[i] IN
        /\ r.err # Null =>
              /\ att[a].loadDone =
                    <<[err |-> [t |-> "error", kind |-> "InternalOAuthError",
                                message |-> "failed to fetch user profile",
                                oauthError |-> r.err],
                       profile |-> Undefined]>>
              /\ att[a].verifyCalls = <<>>
        /\ (r.err = Null /\ r.body \in MalformedBodies) =>
              /\ Len(att[a].loadDone) = 1
              /\ att[a].loadDone[1].err.t = "error"
              /\ att[a].loadDone[1].err.kind = "SyntaxError"
              /\ att[a].loadDone[1].profile = Undefined
              /\ att[a].verifyCalls = <<>>
C10_Witness ==
    \E a \in Attempts :
        /\ att[a].httpCbs = <<[err |-> Null, body |-> BodyHtml]>>
        /\ att[a].loadDone = <<[err |-> SyntaxError, profile |-> Undefined]>>
        /\ att[a].verifyCalls = <<>>

(* The claims each JSON-object body carries, read off the body text. *)
NoClaims == [id |-> Undefined, sub |-> Undefined, name |-> Undefined,
             email |-> Undefined]
ClaimsOf(body) ==
    CASE body = BodyFull ->
            [NoClaims EXCEPT !.id = Str("1"), !.name = Str("N"),
                             !.email = Str("e@x.com")]
      [] body = BodySub ->
            [NoClaims EXCEPT !.sub = Str("42"), !.name = Str("A B"),
                             !.email = Str("a@b.com")]
      [] body = BodyIdAndSub ->
            [NoClaims EXCEPT !.id = Str("1"), !.sub = Str("42")]
      [] body = BodyNullId ->
            [NoClaims EXCEPT !.id = Null, !.sub = Str("42")]
      [] body = BodyZeroId ->
            [NoClaims EXCEPT !.id = Num(0), !.sub = Str("42")]
      [] body = BodyTyped ->
            [NoClaims EXCEPT !.id = Num(7), !.email = Str("e@x.com")]
      [] body = BodyEmptyObject -> NoClaims
ObjectBodies == {BodyFull, BodySub, BodyIdAndSub, BodyNullId, BodyZeroId,
                 BodyTyped, BodyEmptyObject}

(* C11: for a response whose body is a JSON object, the fetch completes     *)
(* first with no error and a profile whose provider is "google", whose id   *)
(* is the id claim when that claim is present (not null, false, 0 or the   *)
(* empty text) and the sub claim only when it is absent, and whose name and *)
(* email fields are the claims or absent.                                   *)
C11_ProfileNormalization ==
    \A a \in Attempts : \A i \in DOMAIN att[a].httpCbs :
        LET r == att[a].httpCbs[i] IN
        (r.err = Null /\ r.body \in ObjectBodies) =>
            LET c == ClaimsOf(r.body)
                d == att[a].loadDone[1]
            IN  /\ d.err = Null
                /\ d.profile.provider = "google"
                /\ d.profile.id =
                      IF ~Falsy(c.id) THEN c.id ELSE c.sub
                /\ d.profile.displayName = c.name
                /\ d.profile.emails = <<[value |-> c.email]>>
                /\ d.profile.name =
                      [familyName |-> Undefined, givenName |-> Undefined]
C11_Witness ==
    \E a \in Attempts :
        /\ att[a].httpCbs = <<[err |-> Null, body |-> BodySub]>>
        /\ Len(att[a].loadDone) >= 1
        /\ att[a].loadDone[1].err = Null
        /\ att[a].loadDone[1].profile.id = Str("42")
        /\ att[a].loadDone[1].profile.provider = "google"

(* C12: the strategy is constructed with the provider default for each of   *)
(* authorizationURL and tokenURL that the configuration omits, with the     *)
(* supplied value for each it gives, and with the name "google-token".      *)
C12_ConstructionDefaults ==
    /\ strategy.name = "google-token"
    /\ strategy.authorizationURL =
          IF optionsGiven.authorizationURL = Undefined
          THEN Str("https://accounts.google.com/o/oauth2/auth")
          ELSE optionsGiven.authorizationURL
    /\ strategy.tokenURL =
          IF optionsGiven.tokenURL = Undefined
          THEN Str("https://accounts.google.com/o/oauth2/token")
          ELSE optionsGiven.tokenURL
C12_Witness ==
    /\ optionsGiven.authorizationURL = Undefined
    /\ optionsGiven.tokenURL = Str("https://idp.example/token")
    /\ strategy.authorizationURL =
          Str("https://accounts.google.com/o/oauth2/auth")
    /\ strategy.tokenURL = Str("https://idp.example/token")
    /\ strategy.name = "google-token"

(* C13: the completion callback of the profile load is invoked at most      *)
(* once in an attempt, also when the code run inside it throws; so the      *)
(* verify callback is invoked at most once and at most one outcome sink is  *)
(* invoked.                                                                 *)
C13_ContinuationsAtMostOnce ==
    \A a \in Attempts :
        /\ Len(att[a].loadDone) <= 1
        /\ Len(att[a].verifyCalls) <= 1
        /\ Len(att[a].sinks) <= 1

(* What does hold: the verify callback itself is called at most once, and   *)
(* done a second time only with the exception caught at line 169.           *)
VerifyAtMostOnce ==
    \A a \in Attempts :
        /\ Len(att[a].verifyCalls) <= 1
        /\ Len(att[a].loadDone) <= 2
        /\ Len(att[a].loadDone) = 2 =>
              /\ att[a].loadDone[1].err = Null
              /\ att[a].loadDone[2].err = AppException

(* C14: every request without query.error reaches the profile loader,       *)
(* whichever of the body, query and headers containers it has and whether   *)
(* or not it carries a token; extraction neither throws nor signals an      *)
(* outcome first.                                                           *)
C14_AlwaysReachesLoader ==
    \A a \in Attempts :
        (att[a].pc # "idle" /\ ~QueryErrorSet(att[a].req)) =>
            /\ Len(att[a].loadCalls) = 1
            /\ \A i \in DOMAIN att[a].uncaught :
                  att[a].uncaught[i].kind # "TypeError"
            /\ \A i \in DOMAIN att[a].sinks : att[a].sinks[i].line # 84

(* C15: the skip policy is resolved by its shape.  A function declaring two *)
(* or more parameters is called with the access token and a callback, and   *)
(* what it reports decides; any other function is called with no argument   *)
(* and its returned value, coerced to boolean, decides; any other value,    *)
(* the unset one included, is itself the decision.  The HTTP get is issued  *)
(* if and only if the decision is falsy and no error was reported, and at   *)
(* most once.                                                               *)
C15_SkipPolicyResolution ==
    \A a \in Attempts :
        LET s == att[a]
            pol == strategy._skipUserProfile
        IN  Extracted(s) =>
            /\ Len(s.httpCalls) <= 1
            /\ IF pol.t = "function" /\ pol.length >= 2
               THEN /\ Len(s.skipCalls) = 1
                    /\ s.skipCalls[1].args = <<s.accessToken, SkipCbFn>>
                    /\ Len(s.skipCbs) <= 1
                    /\ s.skipCbs = <<>> =>
                          s.httpCalls = <<>> /\ s.loadDone = <<>>
                    /\ Len(s.skipCbs) = 1 =>
                          (s.httpCalls # <<>> <=>
                              /\ s.skipCbs[1].err \in {Null, Undefined}
                              /\ Falsy(s.skipCbs[1].skip))
               ELSE IF pol.t = "function"
               THEN /\ Len(s.skipCalls) = 1
                    /\ s.skipCalls[1].args = <<>>
                    /\ s.skipCbs = <<>>
                    /\ s.httpCalls # <<>> <=> Falsy(s.skipCalls[1].ret)
               ELSE /\ s.skipCalls = <<>>
                    /\ s.skipCbs = <<>>
                    /\ s.httpCalls # <<>> <=> Falsy(pol)
C15_Witness ==
    \E a \in Attempts :
        /\ strategy._skipUserProfile = Fn(1)
        /\ att[a].skipCalls = <<[args |-> <<>>, ret |-> Str("yes")]>>
        /\ att[a].httpCalls = <<>>
        /\ Len(att[a].loadDone) = 1

ResolvedToFetch(pol, s) ==
    \/ /\ pol.t # "function" /\ Falsy(pol)
       /\ Extracted(s)
    \/ /\ pol.t = "function" /\ pol.length <= 1
       /\ Len(s.skipCalls) = 1 /\ Falsy(s.skipCalls[1].ret)
    \/ /\ pol.t = "function" /\ pol.length >= 2
       /\ Len(s.skipCbs) = 1
       /\ s.skipCbs[1].err \in {Undefined, Null}
       /\ Falsy(s.skipCbs[1].skip)

(* The URL of the introspection endpoint for a token, as prefix and token. *)
IntrospectionURL(tok) ==
    <<"https://www.googleapis.com/oauth2/v3/tokeninfo?id_token=",
      IF tok.t = "string" THEN tok.s ELSE "undefined">>

(* C16: an attempt issues at most one HTTP get, whatever the get delivers;  *)
(* none when query.error is set; exactly one when the skip policy resolves  *)
(* to fetch, to the tokeninfo URL with the extracted access token as        *)
(* id_token; and that URL is the profileUrl of the profile it produces.     *)
C16_OneIntrospectionGet ==
    \A a \in Attempts :
        LET s == att[a] IN
        /\ Len(s.httpCalls) <= 1
        /\ Len(s.httpCbs) <= Len(s.httpCalls)
        /\ QueryErrorSet(s.req) => s.httpCalls = <<>>
        /\ ResolvedToFetch(strategy._skipUserProfile, s) =>
              s.httpCalls = <<IntrospectionURL(s.accessToken)>>
        /\ \A i \in DOMAIN s.loadDone :
              s.loadDone[i].profile # Undefined =>
                  s.loadDone[i].profile.profileUrl =
                      IntrospectionURL(s.accessToken)
C16_Witness ==
    \E a \in Attempts :
        /\ att[a].accessToken = Str("tok-header")
        /\ att[a].httpCalls = <<IntrospectionURL(Str("tok-header"))>>
        /\ Len(att[a].httpCbs) = 1
        /\ Len(att[a].loadDone) >= 1
        /\ att[a].loadDone[1].profile # Undefined
        /\ att[a].loadDone[1].profile.profileUrl =
              IntrospectionURL(Str("tok-header"))

(* The token of kind k that the request of s carries, in the order of C5    *)
(* and C6.                                                                  *)
OwnToken(s, k) ==
    LET cands == IF s.req.body.t = "object"
                 THEN CandidatesWithBody(s.req, k)
                 ELSE CandidatesWithoutBody(s.req, k)
    IN  IF FirstPresent(cands) = <<>> THEN Undefined
        ELSE FirstPresent(cands)[1]

(* The profile argument is absent, or built from the response delivered to  *)
(* the attempt's own HTTP get for the attempt's own token.                  *)
OwnProfile(s, profile) ==
    \/ profile = Undefined
    \/ /\ Len(s.httpCbs) = 1
       /\ profile._raw = s.httpCbs[1].body
       /\ profile.profileUrl = IntrospectionURL(OwnToken(s, "access_token"))

(* The sinks follow from what was delivered to the attempt itself. *)
OwnOutcome(s) ==
    /\ QueryErrorSet(s.req) => Len(s.sinks) = 1 /\ s.sinks[1].line = 84
    /\ Len(SinksOfVerified(s)) = Len(s.verifiedCalls)
    /\ \A i \in DOMAIN s.verifiedCalls :
          LET v == s.verifiedCalls[i]
              k == SinksOfVerified(s)[i]
          IN  \/ k.sink = "error" /\ k.args = <<v.err>>
              \/ k.sink = "fail" /\ k.args = <<v.info>>
              \/ k.sink = "success" /\ k.args = <<v.user, v.info>>
    /\ \A j \in DOMAIN s.sinks :
          s.sinks[j].line = 100 =>
              \E i \in DOMAIN s.loadDone : s.sinks[j].args = <<s.loadDone[i].err>>

AttemptIsolated(s) ==
    /\ Extracted(s) =>
          /\ s.accessToken = OwnToken(s, "access_token")
          /\ s.refreshToken = OwnToken(s, "refresh_token")
    /\ \A i \in DOMAIN s.verifyCalls :
          LET args == s.verifyCalls[i]
              n == Len(args)
          IN  /\ n = IF strategy._passReqToCallback = True THEN 5 ELSE 4
              /\ n = 5 => args[1] = s.req
              /\ args[n - 3] = OwnToken(s, "access_token")
              /\ args[n - 2] = OwnToken(s, "refresh_token")
              /\ OwnProfile(s, args[n - 1])
    /\ OwnOutcome(s)

(* The states one attempt can move to from s when it runs alone. *)
SoloSuccessors(st, s) ==
    CASE s.pc = "idle" ->
            {authenticate(st, s, req, ret, vb) :
                req \in ConcRequests, ret \in ConcSyncReturns,
                vb \in ConcVerifyBehaviours}
      [] s.pc = "skipWait" ->
            {skipCallback(st, [s EXCEPT !.pc = "done"], r.err, r.skip, vb) :
                r \in ConcSkipReports, vb \in ConcVerifyBehaviours}
      [] s.pc = "httpWait" ->
            {getCallback(st, [s EXCEPT !.pc = "done"], r.err, r.body, vb) :
                r \in ConcHttpResults, vb \in ConcVerifyBehaviours}
      [] s.pc = "verifyWait" ->
            {verified([s EXCEPT !.pc = "done"], r.err, r.user, r.info) :
                r \in ConcVerifyReports}
      [] OTHER -> {}

(* A step of one attempt is a step that attempt could take alone, and it    *)
(* leaves every other attempt and the strategy as they were.                *)
IsolatedStep ==
    \A a \in Attempts :
        att'[a] # att[a] =>
            /\ att'[a] \in SoloSuccessors(strategy, att[a])
            /\ \A b \in Attempts \ {a} : att'[b] = att[b]
            /\ strategy' = strategy

(* C17: with the attempts interleaved at their suspension points, each      *)
(* attempt's verify callback gets the access token, refresh token and       *)
(* profile of its own request, each attempt's sinks follow from what was    *)
(* delivered to that attempt, and every step of an attempt is one it could  *)
(* take alone and changes no other attempt.                                 *)
C17_AttemptsIndependent ==
    /\ [](\A a \in Attempts : AttemptIsolated(att[a]))
    /\ [][IsolatedStep]_vars
C17_Witness ==
    /\ att[1].pc = "verifyWait" /\ att[2].pc = "verifyWait"
    /\ att[1].accessToken = Str("tok-body")
    /\ att[2].accessToken = Str("tok-header")
    /\ Len(att[1].verifyCalls) = 1 /\ Len(att[2].verifyCalls) = 1
    /\ ProfileArg(att[1].verifyCalls[1]) # Undefined
    /\ ProfileArg(att[2].verifyCalls[1]) # Undefined
    /\ ProfileArg(att[1].verifyCalls[1])._raw = BodySub
    /\ ProfileArg(att[2].verifyCalls[1])._raw = BodyFull

Pending(s) == s.pc \in {"skipWait", "httpWait", "verifyWait"}

(* C18: an attempt with no continuation left pending (the skip predicate,   *)
(* the HTTP get and the verify callback have each invoked theirs) has       *)
(* signalled an outcome; an attempt with a continuation still pending has   *)
(* signalled none.                                                          *)
C18_OutcomeOnceContinuationsRan ==
    \A a \in Attempts :
        /\ (/\ att[a].pc = "done"
            /\ Len(att[a].verifiedCalls) = Len(att[a].verifyCalls))
           => att[a].sinks # <<>>
        /\ Pending(att[a]) => att[a].sinks = <<>>

(* What does hold: a pending attempt has signalled nothing, and an attempt  *)
(* with nothing pending has signalled unless an exception left authenticate *)
(* or the verify callback threw without reporting.                          *)
OutcomeUnlessThrown ==
    \A a \in Attempts :
        /\ Pending(att[a]) => att[a].sinks = <<>> /\ att[a].uncaught = <<>>
        /\ (att[a].pc = "done" /\ att[a].uncaught = <<>>
            /\ Len(att[a].verifiedCalls) = Len(att[a].verifyCalls))
           => att[a].sinks # <<>>

(* The attempt met a skip-policy, transport or parse error. *)
LoadFailed(s) ==
    \/ \E i \in DOMAIN s.skipCbs : ~Falsy(s.skipCbs[i].err)
    \/ \E i \in DOMAIN s.httpCbs :
          \/ ~Falsy(s.httpCbs[i].err)
          \/ s.httpCbs[i].body \in MalformedBodies \cup {BodyNull}

(* C19: a success sink is invoked only with the user and info of a call of  *)
(* verified that reported no error and a truthy user, for a verify callback *)
(* that was invoked; and the verify callback is invoked only after the      *)
(* profile load completed first with no error - never when query.error is   *)
(* set, never after a skip-policy, transport or parse error.                *)
C19_SuccessOnlyAfterVerify ==
    \A a \in Attempts :
        LET s == att[a] IN
        /\ \A j \in DOMAIN s.sinks :
              s.sinks[j].sink = "success" =>
                  /\ s.verifyCalls # <<>>
                  /\ \E i \in DOMAIN s.verifiedCalls :
                        /\ Falsy(s.verifiedCalls[i].err)
                        /\ ~Falsy(s.verifiedCalls[i].user)
                        /\ s.sinks[j].args = <<s.verifiedCalls[i].user,
                                               s.verifiedCalls[i].info>>
        /\ s.verifyCalls # <<>> =>
              /\ s.loadDone # <<>>
              /\ Falsy(s.loadDone[1].err)
              /\ ProfileArg(s.verifyCalls[1]) = s.loadDone[1].profile
              /\ ~QueryErrorSet(s.req)
              /\ ~LoadFailed(s)
        /\ (QueryErrorSet(s.req) \/ LoadFailed(s)) =>
              /\ s.verifyCalls = <<>>
              /\ \A j \in DOMAIN s.sinks : s.sinks[j].sink # "success"
C19_Witness ==
    \E a \in Attempts :
        /\ att[a].loadDone # <<>>
        /\ att[a].loadDone[1].err = Null
        /\ att[a].loadDone[1].profile # Undefined
        /\ Len(att[a].verifyCalls) = 1
        /\ att[a].verifiedCalls =
              <<[err |-> Null, user |-> Str("user-1"), info |-> Undefined]>>
        /\ att[a].sinks =
              <<[sink |-> "success", args |-> <<Str("user-1"), Undefined>>,
                 line |-> 110]>>

(* A step leaves the strategy and the options it was built from as they     *)
(* were, and the request of every started attempt as it was passed in.      *)
FrameStep ==
    /\ strategy' = strategy
    /\ optionsGiven' = optionsGiven
    /\ \A a \in Attempts :
          IF att[a].pc = "idle"
          THEN att'[a].pc # "idle" => att'[a].req \in Requests
          ELSE att'[a].req = att[a].req

(* C20: the strategy keeps the name, endpoint URLs, passReqToCallback flag  *)
(* and skip-profile policy it was constructed with, and the request of an   *)
(* attempt keeps its query, body and headers containers, through every step *)
(* of every attempt.                                                        *)
C20_ConfigurationAndRequestUnchanged ==
    /\ [](/\ strategy.name = "google-token"
          /\ strategy.authorizationURL \in
                {optionsGiven.authorizationURL, Str(DefaultAuthorizationURL)}
          /\ strategy.tokenURL \in {optionsGiven.tokenURL, Str(DefaultTokenURL)}
          /\ strategy._passReqToCallback = optionsGiven.passReqToCallback
          /\ strategy._skipUserProfile = optionsGiven.skipUserProfile)
    /\ [][FrameStep]_vars
C20_Witness ==
    \E a \in Attempts :
        /\ att[a].pc = "done"
        /\ att[a].req.query = NoFields
        /\ att[a].req.body = Undefined
        /\ att[a].req.headers =
              Container(Str("tok-header"), Str("ref-header"), Undefined)
        /\ Len(att[a].httpCbs) = 1 /\ Len(att[a].verifiedCalls) = 1
        /\ Len(att[a].sinks) = 1 /\ att[a].sinks[1].sink = "success"
        /\ strategy._skipUserProfile = Fn(2)
        /\ strategy._passReqToCallback = True

====
